---- MODULE Spec2Model ----
(***************************************************************************)
(* Model of the Emit ePost decoder, src/devices/emit_epost.c.              *)
(*                                                                         *)
(* One invocation of emit_epost_decode is a run of the state machine       *)
(*   CLOCK -> START -> MARKER_SEARCH -> LENGTH_CHECK -> EXTRACT ->         *)
(*   DEWHITEN -> FIELD_CHECK -> UNPACK -> CHECKSUM_CHECK -> EMIT -> DONE   *)
(* with an early exit to DONE at every guard that returns.  C indices are  *)
(* kept: frame and whitening are functions on 0..19 and 0..17, bit i of a  *)
(* row is bit 7 - i % 8 of byte i \div 8.  The model checker's integers    *)
(* are 32-bit signed, so the one 32-bit unsigned value of the program      *)
(* (emitcode) is held as its two 16-bit halves.                            *)
(***************************************************************************)
EXTENDS Integers, Sequences, FiniteSets, TLC

(***************************************************************************)
(* Bounds of the model.                                                    *)
(***************************************************************************)
\* lead-in bits before the marker range over 0..MaxLead (and LateLead)
MaxLead == 3
\* num_rows ranges over 0..MaxRows
MaxRows == 2

(***************************************************************************)
(* C operators on unsigned values.                                         *)
(***************************************************************************)
RECURSIVE BitXor(_, _)
BitXor(a, b) ==
    IF a = 0 THEN b
    ELSE IF b = 0 THEN a
    ELSE (((a % 2) + (b % 2)) % 2) + 2 * BitXor(a \div 2, b \div 2)

RECURSIVE BitAnd(_, _)
BitAnd(a, b) ==
    IF a = 0 \/ b = 0 THEN 0
    ELSE (a % 2) * (b % 2) + 2 * BitAnd(a \div 2, b \div 2)

RECURSIVE BitOr(_, _)
BitOr(a, b) ==
    IF a = 0 THEN b
    ELSE IF b = 0 THEN a
    ELSE (IF a % 2 = 1 \/ b % 2 = 1 THEN 1 ELSE 0) + 2 * BitOr(a \div 2, b \div 2)

RECURSIVE Pow2(_)
Pow2(n) == IF n = 0 THEN 1 ELSE 2 * Pow2(n - 1)

\* << on a 16-bit word, >> on an unsigned value
Shl16(a, n) == (a * Pow2(n)) % 65536
Shr(a, n) == a \div Pow2(n)

(***************************************************************************)
(* The two tables.                                                         *)
(***************************************************************************)
\* ff e1 1d 9a ed 85 33 24 ea 7a d2 39 70 97 57 0a 54 7d
whitening ==
    [k \in 0..17 |->
        <<255, 225, 29, 154, 237, 133, 51, 36, 234,
          122, 210, 57, 112, 151, 87, 10, 84, 125>>[k + 1]]

\* aa aa d3 91 d3 91
preamble == <<170, 170, 211, 145, 211, 145>>

\* sizeof(preamble) * 8
preamble_bits == Len(preamble) * 8

\* sizeof(frame)
frame_size == 20

\* bytes of the frame that are extracted, printed and emitted
frame_bytes == 12

(***************************************************************************)
(* Return codes of a decoder (enum decode_return_codes of the framework).  *)
(***************************************************************************)
DECODE_ABORT_LENGTH == -1
DECODE_ABORT_EARLY == -2
DECODE_FAIL_MIC == -3
DECODE_FAIL_SANITY == -4

(***************************************************************************)
(* bitbuffer_t: num_rows, bits_per_row[] and the byte storage bb[][] of    *)
(* BufCols bytes a row.  Storage past bits_per_row keeps whatever was      *)
(* written there before.                                                   *)
(***************************************************************************)
BufCols == 32

\* bit i of a byte array held as a sequence (byte k is bytes[k + 1])
bit_at(bytes, i) == Shr(bytes[(i \div 8) + 1], 7 - (i % 8)) % 2

\* does pattern occur in the row at bit index pos
matches_at(bits, pos, pattern, pattern_bits_len) ==
    \A ppos \in 0..(pattern_bits_len - 1) :
        bit_at(bits, pos + ppos) = bit_at(pattern, ppos)

\* first bit index from start on at which pattern starts in the row, or the
\* row's length when it does not occur
bitbuffer_search(bb, row, start, pattern, pattern_bits_len) ==
    LET bits == bb.bb[row + 1]
        len == bb.bits_per_row[row + 1]
        found == { pos \in start..(len - pattern_bits_len) :
                      matches_at(bits, pos, pattern, pattern_bits_len) }
    IN  IF found = {} THEN len
        ELSE CHOOSE pos \in found : \A other \in found : pos <= other

\* the byte made of the 8 bits from pos on, most significant first
byte_from(bits, pos) ==
      128 * bit_at(bits, pos)     + 64 * bit_at(bits, pos + 1)
    +  32 * bit_at(bits, pos + 2) + 16 * bit_at(bits, pos + 3)
    +   8 * bit_at(bits, pos + 4) +  4 * bit_at(bits, pos + 5)
    +   2 * bit_at(bits, pos + 6) +      bit_at(bits, pos + 7)

\* out[0 .. len/8 - 1] := the len bits of the row from pos on; the row's
\* length is not looked at
bitbuffer_extract_bytes(bb, row, pos, out, len) ==
    [k \in DOMAIN out |->
        IF k < len \div 8 THEN byte_from(bb.bb[row + 1], pos + 8 * k)
        ELSE out[k]]

(***************************************************************************)
(* crc16(message, nBytes, polynomial, init): most significant bit first,   *)
(* no reflection, no final xor.                                            *)
(***************************************************************************)
RECURSIVE crc16_bits(_, _, _)
crc16_bits(remainder, polynomial, bit) ==
    IF bit = 8 THEN remainder
    ELSE crc16_bits(
            IF remainder >= 32768
            THEN BitXor(Shl16(remainder, 1), polynomial)
            ELSE Shl16(remainder, 1),
            polynomial, bit + 1)

RECURSIVE crc16_from(_, _, _, _, _)
crc16_from(message, nBytes, polynomial, remainder, byte) ==
    \* (the test of remainder has it evaluated before the next turn)
    IF byte < nBytes /\ remainder >= 0
    THEN crc16_from(message, nBytes, polynomial,
            crc16_bits(BitXor(remainder, Shl16(message[byte], 8)), polynomial, 0),
            byte + 1)
    ELSE remainder

crc16(message, nBytes, polynomial, init) ==
    crc16_from(message, nBytes, polynomial, init, 0)

(***************************************************************************)
(* sprintf conversions: "%02x" of a byte and "%llu" of a number, as        *)
(* sequences of characters.                                                *)
(***************************************************************************)
HexDigits ==
    <<"0", "1", "2", "3", "4", "5", "6", "7",
      "8", "9", "a", "b", "c", "d", "e", "f">>

Hex2(b) == <<HexDigits[(b \div 16) + 1], HexDigits[(b % 16) + 1]>>

RECURSIVE HexStr(_, _, _)
HexStr(f, k, n) == IF k = n THEN <<>> ELSE Hex2(f[k]) \o HexStr(f, k + 1, n)

RECURSIVE Dec(_)
Dec(n) ==
    IF n < 10 THEN <<HexDigits[n + 1]>>
    ELSE Dec(n \div 10) \o <<HexDigits[(n % 10) + 1]>>

(***************************************************************************)
(* The field unpacking and the time reconstruction of emit_epost_decode.   *)
(***************************************************************************)
\* a mask one bit too wide
msgno_wide_mask(f) == Shr(BitAnd(f[0], 112), 4) % 256

\* uint8_t msgno = ((frame[0] & 0x30) >> 4)
msgno_of(f) == Shr(BitAnd(f[0], 48), 4) % 256

\* uint32_t emitcode = frame[5] << 24 | frame[4] << 16 | frame[3] << 8 | frame[2]
\* as the halves hi * 65536 + lo
emitcode_of(f) ==
    [hi |-> BitOr(Shl16(f[5], 8), f[4]), lo |-> BitOr(Shl16(f[3], 8), f[2])]

\* uint16_t time_ms = frame[7] | frame[8] << 8
time_ms_of(f) == BitOr(f[7], Shl16(f[8], 8)) % 65536

\* an overflow counted as 65535 ms
combitime_short(overflows, t) == overflows * 65535 + t

\* uint32_t combitime_ms = time_overflows * 65536 + time_ms (at most 2^24 - 1)
combitime_of(overflows, t) == overflows * 65536 + t

\* uint16_t ms = combitime_ms % 1000
ms_of(c) == (c % 1000) % 65536

\* uint16_t secs = (combitime_ms - ms) / 1000 % 60
secs_of(c, m) == (((c - m) \div 1000) % 60) % 65536

\* uint16_t mins = ((combitime_ms - ms) / 1000) / 60
mins_of(c, m) == (((c - m) \div 1000) \div 60) % 65536

\* uint8_t resend = (frame[0] & 0x0F) == 15
resend_of(f) == IF BitAnd(f[0], 15) = 15 THEN 1 ELSE 0

\* frame[9 + 1] << 8 | frame[9 + 2]
trailer_of(f) == BitOr(f[9 + 1] * 256, f[9 + 2])

\* a comparison that looks at the high byte only
crc_invalid_high_byte(f, c) == f[9 + 1] # c \div 256

\* (frame[9 + 1] << 8 | frame[9 + 2]) != crc
crc_invalid(f, c) == trailer_of(f) # c

\* a minimum that forgets the marker
min_length_payload_only == 12 * 8

\* (10 + 8) * 8
min_length == (10 + 8) * 8

\* what a DATA_INT field carries: the argument read back as a C int.  A
\* uint16_t or uint8_t argument is promoted to int unchanged; the uint32_t
\* emitcode keeps its 32 bits and is read as a two's complement int.
DataInt(v) == v
DataInt32(w) ==
    IF w.hi >= 32768 THEN (w.hi - 65536) * 65536 + w.lo
    ELSE w.hi * 65536 + w.lo

\* a byte read past the end of the 18-entry table is whatever follows the
\* table in memory
OutOfTableBytes == {0, 255}

(***************************************************************************)
(* clock_gettime: its return value and the timespec it fills in.           *)
(***************************************************************************)
Clocks ==
    { [ret |-> -1, tv_sec |-> 0, tv_nsec |-> 0],
      [ret |-> 0, tv_sec |-> 12, tv_nsec |-> 499],
      [ret |-> 0, tv_sec |-> 12, tv_nsec |-> 34000500] }

\* millis = tv_sec * 1000 + tv_nsec / 1000000, one more if
\* tv_nsec % 1000000 >= 500
millis_of(t) ==
    (t.tv_sec * 1000 + (t.tv_nsec \div 1000000))
    + (IF t.tv_nsec % 1000000 >= 500 THEN 1 ELSE 0)

(***************************************************************************)
(* The bit buffers the decoder is run on.  A row is LEAD zero bits, the    *)
(* 48-bit marker (its last bit flipped when the marker is to be absent)    *)
(* and the 12 whitened bytes of a frame, cut to some bit length; the       *)
(* storage after the cut holds zeros, ones or the bits that were cut off.  *)
(***************************************************************************)
\* a row in which the marker starts 96 bits in
LateLead == 96

Leads == (0..MaxLead) \cup {LateLead}

\* bits dropped from the end of the row, -1 for all of them
Cuts == {-1, 0, 1, 96, 97}

\* what the storage holds past the row's length: 0, 1, or 2 for the bits
\* that were cut off
Fills == {0, 1, 2}

\* the 12-byte frame of the payload format, its CRC xor-ed with flip
PlainFrame(b0, card, unit, sub, overflows, flip) ==
    LET body == [k \in 0..9 |->
                    CASE k = 0 -> b0
                      [] k = 1 -> 0
                      [] k \in 2..5 -> card[k - 1]
                      [] k = 6 -> unit
                      [] k = 7 -> sub % 256
                      [] k = 8 -> sub \div 256
                      [] k = 9 -> overflows]
        c == BitXor(crc16(body, 10, 32773, 65535), flip)
    IN  [k \in 0..11 |->
            IF k < 10 THEN body[k]
            ELSE IF k = 10 THEN c \div 256 ELSE c % 256]

\* transmitted bytes: data[n] xor whitening[n]
Whiten(p) == [k \in DOMAIN p |-> BitXor(p[k], whitening[k])]

RowBits(lead, marker, w) ==
    [j \in 0..(lead + preamble_bits + 8 * frame_bytes - 1) |->
        IF j < lead THEN 0
        ELSE IF j < lead + preamble_bits
             THEN IF j = lead + preamble_bits - 1 /\ ~marker
                  THEN 1 - bit_at(preamble, j - lead)
                  ELSE bit_at(preamble, j - lead)
             ELSE LET q == j - lead - preamble_bits
                  IN  Shr(w[q \div 8], 7 - (q % 8)) % 2]

RowStorage(bits, len, fill) ==
    LET n == Cardinality(DOMAIN bits)
        b(j) == IF j >= n THEN 0
                ELSE IF j < len \/ fill = 2 THEN bits[j]
                ELSE fill
    IN  [k \in 1..BufCols |->
              128 * b(8 * (k - 1))     + 64 * b(8 * (k - 1) + 1)
            +  32 * b(8 * (k - 1) + 2) + 16 * b(8 * (k - 1) + 3)
            +   8 * b(8 * (k - 1) + 4) +  4 * b(8 * (k - 1) + 5)
            +   2 * b(8 * (k - 1) + 6) +      b(8 * (k - 1) + 7)]

EmptyRow == [k \in 1..BufCols |-> 0]

Buffer(rows, lead, marker, p, cut, fill) ==
    LET bits == RowBits(lead, marker, Whiten(p))
        len == IF cut < 0 THEN 0 ELSE Cardinality(DOMAIN bits) - cut
    IN  IF rows = 0
        THEN [num_rows |-> 0,
              bits_per_row |-> [r \in 1..MaxRows |-> 0],
              bb |-> [r \in 1..MaxRows |-> EmptyRow]]
        ELSE [num_rows |-> rows,
              bits_per_row |-> [r \in 1..MaxRows |-> IF r = 1 THEN len ELSE 0],
              bb |-> [r \in 1..MaxRows |->
                         IF r = 1 THEN RowStorage(bits, len, fill) ELSE EmptyRow]]

Byte0s == {15, 245, 64}
Cards == {<<57, 48, 0, 0>>, <<255, 255, 255, 127>>, <<1, 2, 3, 128>>,
          <<255, 255, 255, 255>>}
Times == {<<1000, 1>>, <<65535, 255>>, <<0, 0>>, <<59999, 0>>}
Flips == {Pow2(n) : n \in 0..15}

\* whole frames with a good CRC, after 0..MaxLead lead-in bits
CleanBuffers ==
    { Buffer(1, lead, TRUE, PlainFrame(b0, card, 33, t[1], t[2], 0), 0, 0) :
        lead \in {0, MaxLead}, b0 \in Byte0s, card \in Cards, t \in Times }

\* whole frames with one bit of the CRC flipped
FlippedBuffers ==
    { Buffer(1, 0, TRUE, PlainFrame(b0, <<57, 48, 0, 0>>, 33, 1000, 1, flip), 0, 0) :
        b0 \in {15, 245}, flip \in Flips }

\* one frame in rows of every shape
ShapedBuffers ==
    { Buffer(rows, lead, marker, PlainFrame(245, <<1, 2, 3, 128>>, 7, 1000, 1, 0),
             cut, fill) :
        rows \in {1}, lead \in Leads, marker \in BOOLEAN,
        cut \in Cuts, fill \in Fills }

\* no row at all, and more rows than the one that is decoded
CountedBuffers ==
    { Buffer(rows, 0, TRUE, PlainFrame(15, <<57, 48, 0, 0>>, 33, 1000, 1, 0), 0, 0) :
        rows \in 0..MaxRows }

\* every value of byte 0
Byte0Buffers ==
    { Buffer(1, 0, TRUE, PlainFrame(b0, <<57, 48, 0, 0>>, 33, 1000, 1, 0), 0, 0) :
        b0 \in 0..255 }

Buffers ==
    CleanBuffers \cup FlippedBuffers \cup ShapedBuffers \cup CountedBuffers
        \cup Byte0Buffers

(***************************************************************************)
(* State of an invocation.                                                 *)
(***************************************************************************)
VARIABLES
    bitbuffer,        \* the argument
    tms,              \* what clock_gettime does in this invocation
    pc,               \* where the invocation is
    timestamp,        \* char timestamp[20]
    start_pos,
    frame,            \* uint8_t frame[20]
    nonw_frame_str,
    i,                \* index of the whitening loop
    msgno, emitcode, epostcode, time_ms, time_overflows,
    combitime_ms, ms, secs, mins, resend, crc,
    result,           \* the value returned, 0 while running
    output,           \* the data handed to decoder_output_data
    exit_at,          \* the step that returned
    extract_calls,    \* calls of bitbuffer_extract_bytes
    whitening_reads,  \* the indices at which whitening[] was read
    prev              \* outcome of the previous invocation on this buffer

inputs == <<bitbuffer, tms>>
locals == <<timestamp, start_pos, frame, nonw_frame_str, i>>
fields == <<msgno, emitcode, epostcode, time_ms, time_overflows,
            combitime_ms, ms, secs, mins, resend, crc>>
outs == <<result, output, exit_at>>
reads == <<extract_calls, whitening_reads>>
vars == <<inputs, pc, locals, fields, outs, reads, prev>>

NoFrame == [k \in 0..(frame_size - 1) |-> 0]
NoCode == [hi |-> 0, lo |-> 0]
NoOutcome == [result |-> 0, output |-> <<>>]

\* the locals of a fresh call
Fresh ==
    /\ timestamp = <<>> /\ start_pos = 0 /\ frame = NoFrame
    /\ nonw_frame_str = <<>> /\ i = 0
    /\ msgno = 0 /\ emitcode = NoCode /\ epostcode = 0 /\ time_ms = 0
    /\ time_overflows = 0 /\ combitime_ms = 0 /\ ms = 0 /\ secs = 0
    /\ mins = 0 /\ resend = 0 /\ crc = 0
    /\ result = 0 /\ output = <<>> /\ exit_at = "NONE"
    /\ extract_calls = 0 /\ whitening_reads = <<>>

FreshNext ==
    /\ timestamp' = <<>> /\ start_pos' = 0 /\ frame' = NoFrame
    /\ nonw_frame_str' = <<>> /\ i' = 0
    /\ msgno' = 0 /\ emitcode' = NoCode /\ epostcode' = 0 /\ time_ms' = 0
    /\ time_overflows' = 0 /\ combitime_ms' = 0 /\ ms' = 0 /\ secs' = 0
    /\ mins' = 0 /\ resend' = 0 /\ crc' = 0
    /\ result' = 0 /\ output' = <<>> /\ exit_at' = "NONE"
    /\ extract_calls' = 0 /\ whitening_reads' = <<>>

Init ==
    /\ pc = "IDLE"
    /\ bitbuffer = Buffer(0, 0, TRUE, NoFrame, 0, 0)
    /\ tms = [ret |-> 0, tv_sec |-> 0, tv_nsec |-> 0]
    /\ prev = NoOutcome
    /\ Fresh

\* return v from the step named at
Return(v, at) ==
    /\ result' = v
    /\ exit_at' = at
    /\ pc' = "DONE"

\* the record without its capture time
Untimed(d) == [f \in (DOMAIN d) \ {"time"} |-> d[f]]

Outcome == [result |-> result,
            output |-> [n \in 1..Len(output) |-> Untimed(output[n])]]

(***************************************************************************)
(* The framework calls decode_fn on a bit buffer.                          *)
(***************************************************************************)
Invoke ==
    /\ pc = "IDLE"
    /\ \E b \in Buffers, c \in Clocks :
        /\ bitbuffer' = b
        /\ tms' = c
    /\ pc' = "CLOCK"
    /\ UNCHANGED <<locals, fields, outs, reads, prev>>

\* and may call it again on the same buffer
Reinvoke ==
    /\ pc = "DONE"
    /\ \E c \in Clocks : tms' = c
    /\ prev' = Outcome
    /\ FreshNext
    /\ pc' = "CLOCK"
    /\ UNCHANGED bitbuffer

(***************************************************************************)
(* emit_epost_decode, step by step.                                        *)
(***************************************************************************)
ClockGettime ==
    /\ pc = "CLOCK"
    /\ IF tms.ret # 0
       THEN /\ Return(-1, "CLOCK")
            /\ UNCHANGED timestamp
       ELSE /\ timestamp' = Dec(millis_of(tms))
            /\ pc' = "START"
            /\ UNCHANGED <<result, exit_at>>
    /\ UNCHANGED <<inputs, start_pos, frame, nonw_frame_str, i, fields,
                   output, reads, prev>>

CheckRows ==
    /\ pc = "START"
    /\ IF bitbuffer.num_rows < 1
       THEN Return(DECODE_ABORT_EARLY, "START")
       ELSE /\ pc' = "MARKER_SEARCH"
            /\ UNCHANGED <<result, exit_at>>
    /\ UNCHANGED <<inputs, locals, fields, output, reads, prev>>

MarkerSearch ==
    /\ pc = "MARKER_SEARCH"
    /\ start_pos' = bitbuffer_search(bitbuffer, 0, 0, preamble, preamble_bits)
    /\ IF start_pos' = bitbuffer.bits_per_row[1]
       THEN Return(DECODE_ABORT_EARLY, "MARKER_SEARCH")
       ELSE /\ pc' = "LENGTH_CHECK"
            /\ UNCHANGED <<result, exit_at>>
    /\ UNCHANGED <<inputs, timestamp, frame, nonw_frame_str, i, fields,
                   output, reads, prev>>

\* a length check that reports the early abort
LengthCheckEarly ==
    /\ pc = "LENGTH_CHECK"
    /\ IF bitbuffer.bits_per_row[1] < min_length
       THEN Return(DECODE_ABORT_EARLY, "LENGTH_CHECK")
       ELSE /\ pc' = "EXTRACT"
            /\ UNCHANGED <<result, exit_at>>
    /\ UNCHANGED <<inputs, locals, fields, output, reads, prev>>

LengthCheck ==
    /\ pc = "LENGTH_CHECK"
    /\ IF bitbuffer.bits_per_row[1] < min_length
       THEN Return(DECODE_ABORT_LENGTH, "LENGTH_CHECK")
       ELSE /\ pc' = "EXTRACT"
            /\ UNCHANGED <<result, exit_at>>
    /\ UNCHANGED <<inputs, locals, fields, output, reads, prev>>

Extract ==
    /\ pc = "EXTRACT"
    /\ frame' = bitbuffer_extract_bytes(bitbuffer, 0, start_pos + preamble_bits,
                                        NoFrame, frame_bytes * 8)
    /\ extract_calls' = extract_calls + 1
    /\ nonw_frame_str' = HexStr(frame', 0, frame_bytes)
    /\ i' = 0
    /\ pc' = "DEWHITEN"
    /\ UNCHANGED <<inputs, timestamp, start_pos, fields, outs,
                   whitening_reads, prev>>

\* one turn of: for (i = 0; i < sizeof(frame); ++i) frame[i] ^= whitening[i]
Dewhiten ==
    /\ pc = "DEWHITEN"
    /\ i < frame_size
    /\ \E w \in (IF i \in DOMAIN whitening THEN {whitening[i]}
                 ELSE OutOfTableBytes) :
        frame' = [frame EXCEPT ![i] = BitXor(@, w)]
    /\ whitening_reads' = Append(whitening_reads, i)
    /\ i' = i + 1
    /\ pc' = IF i' < frame_size THEN "DEWHITEN" ELSE "FIELD_CHECK"
    /\ UNCHANGED <<inputs, timestamp, start_pos, nonw_frame_str, fields,
                   outs, extract_calls, prev>>

FieldCheck ==
    /\ pc = "FIELD_CHECK"
    /\ msgno' = msgno_of(frame)
    /\ IF msgno' > 3
       THEN Return(DECODE_FAIL_SANITY, "FIELD_CHECK")
       ELSE /\ pc' = "UNPACK"
            /\ UNCHANGED <<result, exit_at>>
    /\ UNCHANGED <<inputs, locals, emitcode, epostcode, time_ms,
                   time_overflows, combitime_ms, ms, secs, mins, resend, crc,
                   output, reads, prev>>

Unpack ==
    /\ pc = "UNPACK"
    /\ emitcode' = emitcode_of(frame)
    /\ epostcode' = frame[6]
    /\ time_ms' = time_ms_of(frame)
    /\ time_overflows' = frame[9]
    /\ combitime_ms' = combitime_of(time_overflows', time_ms')
    /\ ms' = ms_of(combitime_ms')
    /\ secs' = secs_of(combitime_ms', ms')
    /\ mins' = mins_of(combitime_ms', ms')
    /\ resend' = resend_of(frame)
    /\ pc' = "CHECKSUM_CHECK"
    /\ UNCHANGED <<inputs, locals, msgno, crc, outs, reads, prev>>

ChecksumCheck ==
    /\ pc = "CHECKSUM_CHECK"
    /\ crc' = crc16(frame, 10, 32773, 65535)
    /\ IF crc_invalid(frame, crc')
       THEN Return(DECODE_FAIL_MIC, "CHECKSUM_CHECK")
       ELSE /\ pc' = "EMIT"
            /\ UNCHANGED <<result, exit_at>>
    /\ UNCHANGED <<inputs, locals, msgno, emitcode, epostcode, time_ms,
                   time_overflows, combitime_ms, ms, secs, mins, resend,
                   output, reads, prev>>

Emit ==
    /\ pc = "EMIT"
    /\ output' = Append(output,
          [model     |-> "Emit-ePost",
           raw       |-> HexStr(frame, 0, frame_bytes),
           nonw_raw  |-> nonw_frame_str,
           emitcode  |-> DataInt32(emitcode),
           epostcode |-> DataInt(epostcode),
           timemins  |-> DataInt(mins),
           timesecs  |-> DataInt(secs),
           timems    |-> DataInt(ms),
           resend    |-> DataInt(resend),
           time      |-> timestamp,
           mic       |-> "CRC"])
    /\ Return(1, "EMIT")
    /\ UNCHANGED <<inputs, locals, fields, reads, prev>>

Next ==
    \/ Invoke
    \/ Reinvoke
    \/ ClockGettime
    \/ CheckRows
    \/ MarkerSearch
    \/ LengthCheck
    \/ Extract
    \/ Dewhiten
    \/ FieldCheck
    \/ Unpack
    \/ ChecksumCheck
    \/ Emit

Spec == Init /\ [][Next]_vars

(***************************************************************************)
(* The time reconstruction on its own: invocations that have reached the   *)
(* unpacking of a frame with a good CRC, for every overflow count and the  *)
(* sub-counter values around the carries.                                  *)
(***************************************************************************)
SubMsValues ==
    {0, 1, 535, 536, 999, 1000, 1001, 32767, 32768, 59999, 60000, 65534, 65535}

InitTime ==
    \E sub \in SubMsValues, overflows \in 0..255 :
        LET p == PlainFrame(15, <<57, 48, 0, 0>>, 33, sub, overflows, 0)
            c == [ret |-> 0, tv_sec |-> 12, tv_nsec |-> 499]
        IN  /\ bitbuffer = Buffer(1, 0, TRUE, p, 0, 0)
            /\ tms = c
            /\ pc = "UNPACK"
            /\ timestamp = Dec(millis_of(c))
            /\ start_pos = 0
            /\ frame = [k \in 0..(frame_size - 1) |->
                           IF k < frame_bytes THEN p[k]
                           ELSE IF k \in DOMAIN whitening THEN whitening[k]
                           ELSE 0]
            /\ nonw_frame_str = HexStr(Whiten(p), 0, frame_bytes)
            /\ i = frame_size
            /\ msgno = msgno_of(p)
            /\ emitcode = NoCode /\ epostcode = 0 /\ time_ms = 0
            /\ time_overflows = 0 /\ combitime_ms = 0 /\ ms = 0 /\ secs = 0
            /\ mins = 0 /\ resend = 0 /\ crc = 0
            /\ result = 0 /\ output = <<>> /\ exit_at = "NONE"
            /\ extract_calls = 1
            /\ whitening_reads = [n \in 1..frame_size |-> n - 1]
            /\ prev = NoOutcome

NextTime ==
    \/ Unpack
    \/ ChecksumCheck
    \/ Emit

SpecTime == InitTime /\ [][NextTime]_vars

TypeOK ==
    /\ pc \in {"IDLE", "CLOCK", "START", "MARKER_SEARCH", "LENGTH_CHECK",
               "EXTRACT", "DEWHITEN", "FIELD_CHECK", "UNPACK",
               "CHECKSUM_CHECK", "EMIT", "DONE"}
    /\ \A k \in DOMAIN frame : frame[k] \in 0..255
    /\ result \in {0, 1, -1, DECODE_ABORT_LENGTH, DECODE_ABORT_EARLY,
                   DECODE_FAIL_MIC, DECODE_FAIL_SANITY}

(***************************************************************************)
(* What the properties are stated in.                                      *)
(***************************************************************************)
Running == pc \notin {"IDLE", "DONE"}
Done == pc = "DONE"
RowLen == bitbuffer.bits_per_row[1]
HasRow == bitbuffer.num_rows >= 1

\* the 48 marker bits: aa aa d3 91 d3 91
MarkerBits ==
    <<1,0,1,0,1,0,1,0, 1,0,1,0,1,0,1,0, 1,1,0,1,0,0,1,1,
      1,0,0,1,0,0,0,1, 1,1,0,1,0,0,1,1, 1,0,0,1,0,0,0,1>>

\* bit n of row 0
RowBit(n) == (bitbuffer.bb[1][(n \div 8) + 1] \div Pow2(7 - (n % 8))) % 2

MarkerAt(pos) == \A n \in 1..48 : RowBit(pos + n - 1) = MarkerBits[n]
MarkerInRow == \E pos \in 0..(RowLen - 48) : MarkerAt(pos)

\* the frame has been extracted and dewhitened
Dewhitened ==
    \/ pc \in {"FIELD_CHECK", "UNPACK", "CHECKSUM_CHECK", "EMIT"}
    \/ Done /\ extract_calls > 0

\* the fields have been unpacked
Unpacked ==
    \/ pc \in {"CHECKSUM_CHECK", "EMIT"}
    \/ Done /\ exit_at \in {"CHECKSUM_CHECK", "EMIT"}

FrameCrc == crc16(frame, 10, 32773, 65535)
FrameTrailer == frame[10] * 256 + frame[11]

(***************************************************************************)
(* C1                                                                      *)
(***************************************************************************)
\* C1: a record is produced (decoder_output_data called, 1 returned) only
\* if the CRC-16 (poly 0x8005, init 0xFFFF) over bytes 0..9 of the
\* dewhitened frame equals frame[10] * 256 + frame[11]; when the two differ
\* the invocation ends with DECODE_FAIL_MIC and no record.
C1_RecordOnlyOnCrcMatch ==
    /\ (output # <<>> \/ result = 1) =>
          /\ Done /\ extract_calls > 0
          /\ Len(output) = 1 /\ result = 1
          /\ FrameCrc = FrameTrailer
    /\ (Done /\ extract_calls > 0 /\ FrameCrc # FrameTrailer) =>
          /\ result = DECODE_FAIL_MIC
          /\ output = <<>>

\* a frame whose trailer differs from its CRC in the low byte only was
\* rejected
C1_Witness ==
    /\ Done /\ extract_calls > 0
    /\ result = DECODE_FAIL_MIC /\ output = <<>>
    /\ FrameCrc # FrameTrailer
    /\ FrameCrc \div 256 = frame[10]

(***************************************************************************)
(* C2                                                                      *)
(***************************************************************************)
FailureValues ==
    {DECODE_ABORT_LENGTH, DECODE_ABORT_EARLY, DECODE_FAIL_MIC, DECODE_FAIL_SANITY}

C3_Original ==
    (Done /\ tms.ret = 0 /\ HasRow /\ RowLen > 0 /\ RowLen < 144) =>
        /\ exit_at = "LENGTH_CHECK"
        /\ result = DECODE_ABORT_LENGTH
        /\ extract_calls = 0

\* C3, amended: for a row shorter than 144 bits the extractor is never
\* called and no record is produced; the invocation ends at LENGTH_CHECK
\* with DECODE_ABORT_LENGTH when the row holds the marker, at MARKER_SEARCH
\* with DECODE_ABORT_EARLY when it does not, and at the clock call with -1
\* when that call fails.
C3_ShortRow ==
    (HasRow /\ RowLen < 144) =>
        /\ extract_calls = 0
        /\ output = <<>>
        /\ Done =>
            IF tms.ret # 0
            THEN exit_at = "CLOCK" /\ result = -1
            ELSE IF MarkerInRow
                 THEN exit_at = "LENGTH_CHECK" /\ result = DECODE_ABORT_LENGTH
                 ELSE exit_at = "MARKER_SEARCH" /\ result = DECODE_ABORT_EARLY

\* a row of 96 to 143 bits that holds the marker ended at LENGTH_CHECK
C3_Witness ==
    /\ Done /\ HasRow /\ RowLen >= 96 /\ RowLen < 144 /\ MarkerInRow
    /\ exit_at = "LENGTH_CHECK"
    /\ extract_calls = 0

(***************************************************************************)
(* C4                                                                      *)
(***************************************************************************)
\* row 0 is the 6 marker bytes followed by 12 bytes and nothing else
MarkerThenFrame == bitbuffer.num_rows = 1 /\ RowLen = 144 /\ MarkerAt(0)

\* the plaintext of those 12 bytes: byte 6 + k of the row xor keystream[k]
Plain == [k \in 0..11 |-> BitXor(bitbuffer.bb[1][6 + k + 1], whitening[k])]
PlainCrc == crc16(Plain, 10, 32773, 65535)
PlainTrailer == Plain[10] * 256 + Plain[11]
PlainElapsed == Plain[9] * 65536 + Plain[8] * 256 + Plain[7]

\* the record's fields are the values the layout table unpacks from Plain
RecordOfPlain(d) ==
    /\ d.emitcode >= 0
    /\ d.emitcode % 65536 = Plain[2] + Plain[3] * 256
    /\ d.emitcode \div 65536 = Plain[4] + Plain[5] * 256
    /\ d.epostcode = Plain[6]
    /\ d.timemins = PlainElapsed \div 60000
    /\ d.timesecs = (PlainElapsed \div 1000) % 60
    /\ d.timems = PlainElapsed % 1000
    /\ d.resend = (IF Plain[0] % 16 = 15 THEN 1 ELSE 0)

\* C4 as stated: a single-row buffer of the marker followed by the whitened
\* bytes of a frame P with a good CRC decodes to exactly one record whose
\* card_identifier, unit_code, elapsed minutes/seconds/ms and resend_flag
\* are those of P; with one bit of the trailer flipped it yields
\* DECODE_FAIL_MIC and no record.  (Stated for invocations whose clock call
\* succeeded.)
C4_Original ==
    (Done /\ tms.ret = 0 /\ MarkerThenFrame) =>
        /\ PlainCrc = PlainTrailer =>
              /\ result = 1
              /\ Len(output) = 1
              /\ RecordOfPlain(output[1])
        /\ BitXor(PlainCrc, PlainTrailer) \in Flips =>
              /\ result = DECODE_FAIL_MIC
              /\ output = <<>>

(***************************************************************************)
(* C5                                                                      *)
(***************************************************************************)
\* C5 as stated: dewhitening xors frame[i] with keystream[i] exactly once
\* for each i in 0..11, and every keystream index read lies inside the
\* 18-entry table.
C5_Original ==
    /\ \A n \in 1..Len(whitening_reads) : whitening_reads[n] <= 17
    /\ Dewhitened =>
          \A k \in 0..11 :
              /\ Cardinality({n \in 1..Len(whitening_reads) :
                                 whitening_reads[n] = k}) = 1
              /\ Hex2(BitXor(frame[k], whitening[k]))
                    = SubSeq(nonw_frame_str, 2 * k + 1, 2 * k + 2)

(***************************************************************************)
(* C6                                                                      *)
(***************************************************************************)
SubMs == frame[7] + frame[8] * 256
OverflowCount == frame[9]
ElapsedMs == OverflowCount * 65536 + SubMs

\* C6: elapsed_ms = overflow_count * 65536 + sub_ms, and minutes, seconds
\* and ms satisfy minutes * 60000 + seconds * 1000 + ms = elapsed_ms with
\* 0 <= ms < 1000 and 0 <= seconds < 60, in the locals and in the emitted
\* record; sub_ms = 1000, overflow_count = 1 gives 1 min 6 s 536 ms.
C6_TimeReconstruction ==
    /\ Unpacked =>
          /\ time_ms = SubMs /\ time_overflows = OverflowCount
          /\ combitime_ms = ElapsedMs
          /\ mins * 60000 + secs * 1000 + ms = ElapsedMs
          /\ 0 <= ms /\ ms < 1000
          /\ 0 <= secs /\ secs < 60
          /\ 0 <= mins
          /\ (SubMs = 1000 /\ OverflowCount = 1) =>
                (mins = 1 /\ secs = 6 /\ ms = 536)
    /\ output # <<>> =>
          /\ output[1].timemins = mins
          /\ output[1].timesecs = secs
          /\ output[1].timems = ms

\* the record of a frame with sub_ms = 1000 and overflow_count = 1
C6_Witness ==
    /\ Done /\ output # <<>>
    /\ SubMs = 1000 /\ OverflowCount = 1
    /\ output[1].timemins = 1 /\ output[1].timesecs = 6
    /\ output[1].timems = 536

(***************************************************************************)
(* C7                                                                      *)
(***************************************************************************)
\* row 0 holds a whole frame with a good CRC right after its first marker
ValidFrameInRow ==
    /\ HasRow /\ MarkerInRow
    /\ LET pos == CHOOSE q \in 0..(RowLen - 48) :
                      MarkerAt(q) /\ \A r \in 0..(q - 1) : ~MarkerAt(r)
           p == [k \in 0..11 |->
                   BitXor(  128 * RowBit(pos + 48 + 8 * k)
                          +  64 * RowBit(pos + 49 + 8 * k)
                          +  32 * RowBit(pos + 50 + 8 * k)
                          +  16 * RowBit(pos + 51 + 8 * k)
                          +   8 * RowBit(pos + 52 + 8 * k)
                          +   4 * RowBit(pos + 53 + 8 * k)
                          +   2 * RowBit(pos + 54 + 8 * k)
                          +       RowBit(pos + 55 + 8 * k), whitening[k])]
       IN  /\ pos + 144 <= RowLen
           /\ crc16(p, 10, 32773, 65535) = p[10] * 256 + p[11]

\* C7 as stated: two invocations on the same buffer end the same way and,
\* on EMIT, carry the same fields except the capture time, whatever the
\* clock returns and whether or not the clock call fails; a row holding a
\* valid frame never ends in a failure.
C7_Original ==
    Done =>
        /\ prev # NoOutcome => Outcome = prev
        /\ ValidFrameInRow => result = 1

(***************************************************************************)
(* C8                                                                      *)
(***************************************************************************)
\* C8 as stated: the card_identifier of an emitted record is the unsigned
\* value byte2 + byte3 * 2^8 + byte4 * 2^16 + byte5 * 2^24 of the
\* dewhitened frame (given by its two 16-bit halves), never negative.
C8_Original ==
    output # <<>> =>
        /\ output[1].emitcode >= 0
        /\ output[1].emitcode % 65536 = frame[2] + frame[3] * 256
        /\ output[1].emitcode \div 65536 = frame[4] + frame[5] * 256

(***************************************************************************)
(* C9                                                                      *)
(***************************************************************************)
\* C9: wherever FIELD_CHECK has run, message_index = (frame[0] & 0x30) >> 4
\* lies in 0..3; DECODE_FAIL_SANITY is never returned, no invocation ends
\* at FIELD_CHECK, and an invocation that passed LENGTH_CHECK ends at
\* CHECKSUM_CHECK or at EMIT.
C9_SanityUnreachable ==
    /\ result # DECODE_FAIL_SANITY
    /\ exit_at # "FIELD_CHECK"
    /\ (pc \in {"UNPACK", "CHECKSUM_CHECK", "EMIT"} \/ (Done /\ extract_calls > 0)) =>
          /\ msgno \in 0..3
          /\ msgno = (frame[0] \div 16) % 4
    /\ (Done /\ extract_calls > 0) => exit_at \in {"CHECKSUM_CHECK", "EMIT"}

\* the checksum is about to be computed for a frame whose byte 0 has bit 6
\* set
C9_Witness ==
    /\ pc = "CHECKSUM_CHECK"
    /\ (frame[0] \div 64) % 2 = 1
    /\ msgno \in 0..3

(***************************************************************************)
(* C10                                                                     *)
(***************************************************************************)
\* C10 as stated: whenever the extractor is called, the 96 bits it reads
\* lie inside the row: start_pos + 48 + 96 <= bits_per_row[0].
C10_Original ==
    extract_calls > 0 => start_pos + 48 + 96 <= RowLen

====
